---- MODULE Spec2Model ----
(***************************************************************************)
(* Model of the two scripts of the repository:                             *)
(*   - patient_data_cleaner.py : clean_patient_data (Record Cleaner)        *)
(*   - 3_cohort_analysis.py    : analyze_patient_cohorts (Cohort Aggregator)*)
(* The two scripts never interact; each has its own specification          *)
(* (SpecCleaner, SpecCohort) over its own variables.                        *)
(***************************************************************************)
EXTENDS Integers, Sequences, FiniteSets, TLC

\* ------------------------------------------------------------------------
\* Bounds of the model
\* ------------------------------------------------------------------------
MaxPatients == 3
MaxRows == 3

\* ------------------------------------------------------------------------
\* Characters.  A Python str is a sequence of one-character strings; the
\* characters are those of ASCII (codes 0 to 127), ordered by code point as
\* Python orders them.  Ascii[n + 1] is the character of code n; control
\* characters without an escape are written raw.  NUL (code 0) and the
\* grave accent (code 96) have no string literal of their own here and are
\* written "<nul>" and "<grave>".
\* ------------------------------------------------------------------------
Ascii ==
    <<
       "<nul>", "", "", "", "", "", "", "",
       "", "\t", "\n", "", "\f", "\r", "", "",
       "", "", "", "", "", "", "", "",
       "", "", "", "", "", "", "", "",
       " ", "!", "\"", "#", "$", "%", "&", "'",
       "(", ")", "*", "+", ",", "-", ".", "/",
       "0", "1", "2", "3", "4", "5", "6", "7",
       "8", "9", ":", ";", "<", "=", ">", "?",
       "@", "A", "B", "C", "D", "E", "F", "G",
       "H", "I", "J", "K", "L", "M", "N", "O",
       "P", "Q", "R", "S", "T", "U", "V", "W",
       "X", "Y", "Z", "[", "\\", "]", "^", "_",
       "<grave>", "a", "b", "c", "d", "e", "f", "g",
       "h", "i", "j", "k", "l", "m", "n", "o",
       "p", "q", "r", "s", "t", "u", "v", "w",
       "x", "y", "z", "{", "|", "}", "~", ""
    >>

\* the code point of each character
CodeTable ==
    [c \in {Ascii[i] : i \in 1..Len(Ascii)} |->
        (CHOOSE i \in 1..Len(Ascii) : Ascii[i] = c) - 1]

\* ord(c)
CharCode(c) == CodeTable[c]

\* chr(n)
CharOf(n) == Ascii[n + 1]

\* a < b for two str: code point by code point, a proper prefix is smaller
RECURSIVE StrLess(_, _)
StrLess(a, b) ==
    IF b = <<>> THEN FALSE
    ELSE IF a = <<>> THEN TRUE
    ELSE IF CharCode(Head(a)) # CharCode(Head(b))
         THEN CharCode(Head(a)) < CharCode(Head(b))
    ELSE StrLess(Tail(a), Tail(b))

\* ------------------------------------------------------------------------
\* JSON values as json.load builds them.  Every value has the same shape so
\* that values of different Python types can be compared: t is the kind of
\* value; s holds the characters of a str, the elements of a list, the
\* items of a dict; n holds the number of an int, the tenths of a finite
\* float (finite floats have one decimal), 0 or 1 for a bool, the sign of
\* an infinite float.
\* ------------------------------------------------------------------------
Str(s) == [t |-> "str", s |-> s, n |-> 0]
IntV(n) == [t |-> "int", s |-> <<>>, n |-> n]
FloatV(tenths) == [t |-> "float", s |-> <<>>, n |-> tenths]
\* float('inf') and float('-inf'): the JSON numbers 1e999, Infinity, -Infinity
InfV(sign) == [t |-> "inf", s |-> <<>>, n |-> sign]
\* float('nan'): the JSON number NaN.  json.load decodes every NaN of a
\* document to one and the same float object, so NanV is that one object
NanV == [t |-> "nan", s |-> <<>>, n |-> 0]
BoolV(b) == [t |-> "bool", s |-> <<>>, n |-> IF b THEN 1 ELSE 0]
NullV == [t |-> "null", s |-> <<>>, n |-> 0]
\* a JSON array and a JSON object
ListV(elems) == [t |-> "list", s |-> elems, n |-> 0]
ObjV(items) == [t |-> "dict", s |-> items, n |-> 0]

NumericTypes == {"int", "float", "bool"}

\* the number a finite numeric value stands for, in tenths
Tenths(v) == IF v.t = "float" THEN v.n ELSE 10 * v.n

\* ------------------------------------------------------------------------
\* Python dicts: a sequence of <<key, value>> items in insertion order,
\* keys unique; a key is a str.
\* ------------------------------------------------------------------------
NameKey == <<"n", "a", "m", "e">>
AgeKey == <<"a", "g", "e">>
GenderKey == <<"g", "e", "n", "d", "e", "r">>
DiagnosisKey == <<"d", "i", "a", "g", "n", "o", "s", "i", "s">>

HasKey(d, k) == \E i \in 1..Len(d) : d[i][1] = k

KeyIndex(d, k) == CHOOSE i \in 1..Len(d) : d[i][1] = k

\* d[k]
GetItem(d, k) == d[KeyIndex(d, k)][2]

\* d.get(k, default)
Get(d, k, default) == IF HasKey(d, k) THEN GetItem(d, k) ELSE default

\* d[k] = v : an existing key keeps its position, a new key is appended
SetItem(d, k, v) ==
    IF HasKey(d, k)
    THEN [d EXCEPT ![KeyIndex(d, k)] = <<k, v>>]
    ELSE Append(d, <<k, v>>)

KeysOf(d) == {d[i][1] : i \in 1..Len(d)}

\* The comparison of two items that tuple, list and dict comparison and the
\* lookup in a set make: v is w or v == w.  The one NaN object is identical
\* to itself and equal to nothing else; finite numbers compare by value
\* whatever their type (7 == 7.0, True == 1); lists compare element by
\* element, dicts key by key, everything else by type and content
RECURSIVE PyEq(_, _)
PyEq(v, w) ==
    IF v.t = "nan" /\ w.t = "nan" THEN TRUE
    ELSE IF v.t = "nan" \/ w.t = "nan" THEN FALSE
    ELSE IF v.t \in NumericTypes /\ w.t \in NumericTypes
    THEN Tenths(v) = Tenths(w)
    ELSE IF v.t = "list" /\ w.t = "list"
    THEN /\ Len(v.s) = Len(w.s)
         /\ \A i \in 1..Len(v.s) : PyEq(v.s[i], w.s[i])
    ELSE IF v.t = "dict" /\ w.t = "dict"
    THEN /\ KeysOf(v.s) = KeysOf(w.s)
         /\ \A k \in KeysOf(v.s) : PyEq(GetItem(v.s, k), GetItem(w.s, k))
    ELSE v = w

\* hash(v) raises TypeError: lists and dicts are unhashable
Unhashable(v) == v.t \in {"list", "dict"}

\* sorted(items): the keys of a dict are distinct, so the order of the
\* (key, value) tuples is the order of their keys
RECURSIVE SortedItems(_)
SortedItems(items) ==
    IF items = <<>> THEN <<>>
    ELSE LET m == CHOOSE i \in 1..Len(items) :
                     \A j \in 1..Len(items) : j = i \/ StrLess(items[i][1], items[j][1])
         IN <<items[m]>>
              \o SortedItems(SubSeq(items, 1, m - 1) \o SubSeq(items, m + 1, Len(items)))

\* t == u for two tuples of (key, value) tuples
TupleEq(t, u) ==
    /\ Len(t) = Len(u)
    /\ \A i \in 1..Len(t) : t[i][1] = u[i][1] /\ PyEq(t[i][2], u[i][2])

\* ------------------------------------------------------------------------
\* str.title()
\* ------------------------------------------------------------------------
IsLower(c) == CharCode(c) >= 97 /\ CharCode(c) <= 122

IsUpper(c) == CharCode(c) >= 65 /\ CharCode(c) <= 90

ToUpper(c) == IF IsLower(c) THEN CharOf(CharCode(c) - 32) ELSE c

ToLower(c) == IF IsUpper(c) THEN CharOf(CharCode(c) + 32) ELSE c

IsCased(c) == IsLower(c) \/ IsUpper(c)

RECURSIVE TitleFrom(_, _, _)
TitleFrom(s, i, prevCased) ==
    IF i > Len(s) THEN <<>>
    ELSE LET c == s[i]
             out == IF IsCased(c)
                    THEN (IF prevCased THEN ToLower(c) ELSE ToUpper(c))
                    ELSE c
         IN <<out>> \o TitleFrom(s, i + 1, IsCased(c))

Title(s) == TitleFrom(s, 1, FALSE)

\* ------------------------------------------------------------------------
\* int()
\* ------------------------------------------------------------------------
IsDigit(c) == CharCode(c) >= 48 /\ CharCode(c) <= 57

DigitVal(c) == CharCode(c) - 48

\* the whitespace int() skips around the number: space, \t, \n, \v, \f, \r
IsSpace(c) == CharCode(c) = 32 \/ (CharCode(c) >= 9 /\ CharCode(c) <= 13)

RECURSIVE StripLeft(_)
StripLeft(s) ==
    IF s # <<>> /\ IsSpace(Head(s)) THEN StripLeft(Tail(s)) ELSE s

RECURSIVE StripRight(_)
StripRight(s) ==
    IF s # <<>> /\ IsSpace(s[Len(s)])
    THEN StripRight(SubSeq(s, 1, Len(s) - 1)) ELSE s

Strip(s) == StripRight(StripLeft(s))

\* digits, with single underscores allowed between two digits
ValidDigits(s) ==
    /\ s # <<>>
    /\ \A i \in 1..Len(s) : IsDigit(s[i]) \/ s[i] = "_"
    /\ s[1] # "_" /\ s[Len(s)] # "_"
    /\ \A i \in 1..(Len(s) - 1) : ~(s[i] = "_" /\ s[i + 1] = "_")

RECURSIVE DigitsValue(_, _)
DigitsValue(s, acc) ==
    IF s = <<>> THEN acc
    ELSE IF Head(s) = "_" THEN DigitsValue(Tail(s), acc)
    ELSE DigitsValue(Tail(s), 10 * acc + DigitVal(Head(s)))

\* int(str): surrounding whitespace, an optional sign, decimal digits
ParseInt(s) ==
    LET b == Strip(s)
        signed == b # <<>> /\ Head(b) \in {"+", "-"}
        body == IF signed THEN Tail(b) ELSE b
    IN IF ValidDigits(body)
       THEN [ok |-> TRUE,
             v |-> IF signed /\ Head(b) = "-" THEN 0 - DigitsValue(body, 0)
                   ELSE DigitsValue(body, 0),
             err |-> "none"]
       ELSE [ok |-> FALSE, v |-> 0, err |-> "ValueError"]

\* int(float) for a finite float: truncation toward zero (the float is
\* given in tenths)
TruncTenths(n) == IF n >= 0 THEN n \div 10 ELSE 0 - ((0 - n) \div 10)

ToIntLenient(v) ==
    CASE v.t \in {"int", "bool"} -> [ok |-> TRUE, v |-> v.n, err |-> "none"]
      [] v.t = "float" -> [ok |-> TRUE, v |-> TruncTenths(v.n), err |-> "none"]
      [] v.t = "str" -> IF ParseInt(v.s).ok THEN ParseInt(v.s)
                        ELSE [ok |-> TRUE, v |-> 0, err |-> "none"]
      [] OTHER -> [ok |-> TRUE, v |-> 0, err |-> "none"]

\* int(v) for a JSON value: the integer, or the exception int() raises
ToInt(v) ==
    CASE v.t \in {"int", "bool"} -> [ok |-> TRUE, v |-> v.n, err |-> "none"]
      [] v.t = "float" -> [ok |-> TRUE, v |-> TruncTenths(v.n), err |-> "none"]
      [] v.t = "inf" -> [ok |-> FALSE, v |-> 0, err |-> "OverflowError"]
      [] v.t = "nan" -> [ok |-> FALSE, v |-> 0, err |-> "ValueError"]
      [] v.t = "str" -> ParseInt(v.s)
      [] OTHER -> [ok |-> FALSE, v |-> 0, err |-> "TypeError"]


\* ------------------------------------------------------------------------
\* Record Cleaner: clean_patient_data(patients)
\* ------------------------------------------------------------------------
VARIABLES
    input,              \* the argument as it was when the call started
    patients,           \* the argument list; its dicts are mutated in place
    idx,                \* position of the for loop (1-based)
    cleaned_patients,   \* the local list of surviving records
    seen,               \* the local set of canonical tuples
    pc,                 \* "loop", "returned" or "raised"
    result,             \* the returned list (meaningful when pc = "returned")
    err                 \* the exception raised (when pc = "raised")

cleanerVars == <<input, patients, idx, cleaned_patients, seen, pc, result, err>>

\* State of the Cohort Aggregator (idle while the Record Cleaner runs)
VARIABLES
    input_file,       \* what the input path holds: kind "missing", "garbage"
                      \* or "table" (with its columns and rows)
    parquet,          \* patients_large.parquet: exists, and its table
    parquet_before,   \* patients_large.parquet as it was before the call
    cpc,              \* "start", "convert", "query", "cleanup", "returned", "raised"
    ops,              \* the processing steps performed so far, in order
    labelled,         \* the frame after with_columns: rows with bmi_range
    cohort_results,   \* the collected frame: a set of aggregate rows
    cerr              \* the exception raised (when cpc = "raised")

cohortVars ==
    <<input_file, parquet, parquet_before, cpc, ops, labelled, cohort_results, cerr>>

vars == <<cleanerVars, cohortVars>>

\* Raw records a JSON source can hold
Rec(name, age, gender, diagnosis) ==
    << <<NameKey, name>>, <<AgeKey, age>>, <<GenderKey, gender>>,
       <<DiagnosisKey, diagnosis>> >>

IdKey == <<"i", "d">>
BmiKey == <<"b", "m", "i">>

Male == Str(<<"m", "a", "l", "e">>)
Female == Str(<<"f", "e", "m", "a", "l", "e">>)
Flu == Str(<<"f", "l", "u">>)
Cold == Str(<<"c", "o", "l", "d">>)

JohnSmith == Str(<<"j", "o", "h", "n", " ", "s", "m", "i", "t", "h">>)
AnnLee == Str(<<"a", "n", "n", " ", "l", "e", "e">>)
ONeil == Str(<<"o", "'", "n", "e", "i", "l">>)

SampleRecords ==
    { Rec(JohnSmith, Str(<<"3", "2">>), Male, Flu),
      << <<DiagnosisKey, Flu>>, <<GenderKey, Male>>, <<AgeKey, IntV(32)>>,
         <<NameKey, Str(<<"J", "O", "H", "N", " ", "S", "M", "I", "T", "H">>)>> >>,
      Rec(JohnSmith, Str(<<"+", "3", "2">>), Male, Cold),
      Rec(AnnLee, IntV(18), Female, Flu),
      Rec(AnnLee, Str(<<"1", "7">>), Female, Flu),
      << <<NameKey, AnnLee>>, <<GenderKey, Female>>, <<DiagnosisKey, Flu>> >>,
      Rec(JohnSmith, InfV(1), Male, Flu),
      Rec(AnnLee, Str(<<"3", "2">>), Female, ListV(<<Flu, Cold>>)),
      Rec(Str(<<"a", "n", "n", " ", "L", "E", "E">>), FloatV(185), Female, Flu),
      Rec(JohnSmith, NullV, Male, Flu),
      Rec(JohnSmith, BoolV(TRUE), Male, Flu),
      Append(Rec(ONeil, Str(<<"\t", "1", "_", "8", " ">>), Female, Cold),
             <<IdKey, IntV(7)>>),
      << <<IdKey, FloatV(70)>>, <<NameKey, ONeil>>, <<AgeKey, IntV(18)>>,
         <<GenderKey, Female>>, <<DiagnosisKey, Cold>> >>,
      Append(Rec(ONeil, Str(<<"1", "8">>), Female, Cold), <<BmiKey, NanV>>),
      << <<BmiKey, NanV>>, <<NameKey, Str(<<"O", "'", "N", "E", "I", "L">>)>>,
         <<AgeKey, FloatV(189)>>, <<GenderKey, Female>>, <<DiagnosisKey, Cold>> >>,
      << <<AgeKey, IntV(49)>>, <<GenderKey, Male>>, <<DiagnosisKey, Flu>> >>,
      Rec(JohnSmith, Str(<<"1", "8", ".", "5">>), Male, Flu),
      Rec(NullV, IntV(32), Male, Flu) }

RECURSIVE SeqsUpTo(_, _)
SeqsUpTo(S, n) ==
    IF n = 0 THEN {<<>>}
    ELSE LET shorter == SeqsUpTo(S, n - 1)
         IN shorter \cup {Append(q, x) : q \in {r \in shorter : Len(r) = n - 1}, x \in S}

\* patient['name'] = patient['name'].title()
NameFails(p) == IF HasKey(p, NameKey) THEN GetItem(p, NameKey).t # "str" ELSE TRUE

NameError(p) == IF ~HasKey(p, NameKey) THEN "KeyError" ELSE "AttributeError"

StoreNameClobber(p) ==
    SetItem(SetItem(p, NameKey, Str(Title(GetItem(p, NameKey).s))),
            DiagnosisKey, Str(<<>>))

StoreName(p) == SetItem(p, NameKey, Str(Title(GetItem(p, NameKey).s)))

\* int(patient.get('age', 0))
AgeOf(p) == ToInt(Get(p, AgeKey, IntV(0)))

\* patient['age'] = int(patient.get('age', 0))
StoreAge(p) == SetItem(p, AgeKey, IntV(AgeOf(p).v))

\* both assignments of one iteration
Normalize(p) == StoreAge(StoreName(p))

\* patient['age'] >= 18
IsAdultStrict(age) == age > 18

IsAdult(age) == age >= 18

\* tuple(sorted(patient.items()))
PatientTuple(p) == SortedItems(p)

\* patient_tuple in seen
InSeen(t) == \E u \in seen : TupleEq(u, t)

\* hashing patient_tuple raises: some value of the record is unhashable
HashFails(p) == \E i \in 1..Len(p) : Unhashable(p[i][2])

\* cleaned_patients.append(patient)
AppendCleanedFront(cleaned, p) == <<p>> \o cleaned

AppendCleaned(cleaned, p) == Append(cleaned, p)

\* The Cohort Aggregator has not been called
CohortIdle ==
    /\ input_file = [kind |-> "missing", cols |-> {}, rows |-> <<>>]
    /\ parquet = [exists |-> FALSE, cols |-> {}, rows |-> <<>>]
    /\ parquet_before = parquet
    /\ cpc = "idle"
    /\ ops = <<>>
    /\ labelled = <<>>
    /\ cohort_results = {}
    /\ cerr = "none"

InitCleaner ==
    /\ CohortIdle
    /\ input \in SeqsUpTo(SampleRecords, MaxPatients)
    /\ patients = input
    /\ idx = 1
    /\ cleaned_patients = <<>>
    /\ seen = {}
    /\ pc = "loop"
    /\ result = <<>>
    /\ err = "none"

InLoop == pc = "loop" /\ idx <= Len(patients)

\* An iteration whose name lookup or title() raises: nothing is written
LoopRaiseName ==
    /\ InLoop
    /\ NameFails(patients[idx])
    /\ pc' = "raised"
    /\ err' = NameError(patients[idx])
    /\ UNCHANGED <<input, patients, idx, cleaned_patients, seen, result>>
    /\ UNCHANGED cohortVars

\* An iteration whose int() raises: the name has already been written
LoopRaiseAge ==
    /\ InLoop
    /\ ~NameFails(patients[idx])
    /\ ~AgeOf(StoreName(patients[idx])).ok
    /\ patients' = [patients EXCEPT ![idx] = StoreName(patients[idx])]
    /\ pc' = "raised"
    /\ err' = AgeOf(StoreName(patients[idx])).err
    /\ UNCHANGED <<input, idx, cleaned_patients, seen, result>>
    /\ UNCHANGED cohortVars

Coerces(p) == ~NameFails(p) /\ AgeOf(StoreName(p)).ok

\* An iteration for a record under 18: normalized in place, not kept
LoopUnderage ==
    /\ InLoop
    /\ Coerces(patients[idx])
    /\ LET p == Normalize(patients[idx])
       IN /\ ~IsAdult(GetItem(p, AgeKey).n)
          /\ patients' = [patients EXCEPT ![idx] = p]
    /\ idx' = idx + 1
    /\ UNCHANGED <<input, cleaned_patients, seen, pc, result, err>>
    /\ UNCHANGED cohortVars

\* An iteration for an adult whose tuple cannot be hashed: the membership
\* test raises with the name and the age already written
LoopRaiseHash ==
    /\ InLoop
    /\ Coerces(patients[idx])
    /\ LET p == Normalize(patients[idx])
       IN /\ IsAdult(GetItem(p, AgeKey).n)
          /\ HashFails(p)
          /\ patients' = [patients EXCEPT ![idx] = p]
    /\ pc' = "raised"
    /\ err' = "TypeError"
    /\ UNCHANGED <<input, idx, cleaned_patients, seen, result>>
    /\ UNCHANGED cohortVars

\* An iteration for an adult whose tuple was seen before: not kept
LoopDuplicate ==
    /\ InLoop
    /\ Coerces(patients[idx])
    /\ LET p == Normalize(patients[idx])
       IN /\ IsAdult(GetItem(p, AgeKey).n)
          /\ ~HashFails(p)
          /\ InSeen(PatientTuple(p))
          /\ patients' = [patients EXCEPT ![idx] = p]
    /\ idx' = idx + 1
    /\ UNCHANGED <<input, cleaned_patients, seen, pc, result, err>>
    /\ UNCHANGED cohortVars

\* An iteration for an adult seen for the first time: kept
LoopKeep ==
    /\ InLoop
    /\ Coerces(patients[idx])
    /\ LET p == Normalize(patients[idx])
       IN /\ IsAdult(GetItem(p, AgeKey).n)
          /\ ~HashFails(p)
          /\ ~InSeen(PatientTuple(p))
          /\ patients' = [patients EXCEPT ![idx] = p]
          /\ seen' = seen \cup {PatientTuple(p)}
          /\ cleaned_patients' = AppendCleaned(cleaned_patients, p)
    /\ idx' = idx + 1
    /\ UNCHANGED <<input, pc, result, err>>
    /\ UNCHANGED cohortVars

\* The loop is exhausted: return cleaned_patients ([] when it is empty)
Return ==
    /\ pc = "loop"
    /\ idx > Len(patients)
    /\ pc' = "returned"
    /\ result' = IF cleaned_patients = <<>> THEN <<>> ELSE cleaned_patients
    /\ UNCHANGED <<input, patients, idx, cleaned_patients, seen, err>>
    /\ UNCHANGED cohortVars

NextCleaner ==
    \/ LoopRaiseName
    \/ LoopRaiseAge
    \/ LoopUnderage
    \/ LoopRaiseHash
    \/ LoopDuplicate
    \/ LoopKeep
    \/ Return


SpecCleaner == InitCleaner /\ [][NextCleaner]_vars

\* ------------------------------------------------------------------------
\* Cohort Aggregator: analyze_patient_cohorts(input_file)
\* BMI values are in thousandths (18.5 is 18500); a null cell is a value
\* with null = TRUE.
\* ------------------------------------------------------------------------
Bmi(v) == [null |-> FALSE, v |-> v]
NullBmi == [null |-> TRUE, v |-> 0]

Row(bmi, glucose, age) == [BMI |-> bmi, Glucose |-> glucose, Age |-> age]

SampleRows ==
    { Row(Bmi(9999), 90, 20),
      Row(Bmi(10000), 100, 20),
      Row(Bmi(17000), 100, 20),
      Row(Bmi(18499), 120, 30),
      Row(Bmi(18500), 110, 30),
      Row(Bmi(22000), 120, 30),
      Row(Bmi(25000), 130, 40),
      Row(Bmi(29999), 150, 50),
      Row(Bmi(30000), 140, 40),
      Row(Bmi(60000), 160, 60),
      Row(Bmi(60001), 170, 70),
      Row(NullBmi, 180, 80) }

RequiredColumns == {"BMI", "Glucose", "Age"}

SampleColumnSets ==
    { RequiredColumns, RequiredColumns \ {"BMI"}, RequiredColumns \ {"Glucose"},
      RequiredColumns \ {"Age"} }

NoFile == [exists |-> FALSE, cols |-> {}, rows |-> <<>>]

SampleInputFiles ==
    { [kind |-> "missing", cols |-> {}, rows |-> <<>>],
      [kind |-> "garbage", cols |-> {}, rows |-> <<>>] }
    \cup { [kind |-> "table", cols |-> c, rows |-> r] :
             c \in SampleColumnSets, r \in SeqsUpTo(SampleRows, MaxRows) }

\* os.path.exists(input_file)
PathExistsAlways(f) == TRUE

PathExists(f) == f.kind # "missing"

\* (pl.col("BMI") >= 10) & (pl.col("BMI") <= 60); a null comparison is null,
\* and filter keeps only the rows where the predicate is true
InRangeOpen(b) == ~b.null /\ b.v > 10000 /\ b.v < 60000

InRange(b) == ~b.null /\ b.v >= 10000 /\ b.v <= 60000

\* df.filter(...)
FilterRows(rows) == SelectSeq(rows, LAMBDA r : InRange(r.BMI))

\* pl.when(BMI < 18.5).then("Underweight").when(BMI < 25).then("Normal")
\*   .when(BMI < 30).then("Overweight").otherwise("Obese")
BmiRangeInclusive(b) ==
    IF ~b.null /\ b.v <= 18500 THEN "Underweight"
    ELSE IF ~b.null /\ b.v <= 25000 THEN "Normal"
    ELSE IF ~b.null /\ b.v <= 30000 THEN "Overweight"
    ELSE "Obese"

BmiRange(b) ==
    IF ~b.null /\ b.v < 18500 THEN "Underweight"
    ELSE IF ~b.null /\ b.v < 25000 THEN "Normal"
    ELSE IF ~b.null /\ b.v < 30000 THEN "Overweight"
    ELSE "Obese"

\* df.with_columns(... .alias("bmi_range"))
WithBmiRange(rows) ==
    [i \in 1..Len(rows) |->
        [BMI |-> rows[i].BMI, Glucose |-> rows[i].Glucose, Age |-> rows[i].Age,
         bmi_range |-> BmiRange(rows[i].BMI)]]

RECURSIVE SumOver(_, _)
SumOver(rows, col) ==
    IF rows = <<>> THEN 0
    ELSE (IF col = "Glucose" THEN Head(rows).Glucose ELSE Head(rows).Age)
         + SumOver(Tail(rows), col)

\* .mean(): the exact quotient num / den
Mean(rows, col) == [num |-> SumOver(rows, col), den |-> Len(rows)]

\* df.group_by("bmi_range").agg([...]): one row per label present
GroupAgg(rows) ==
    { LET g == SelectSeq(rows, LAMBDA r : r.bmi_range = label)
      IN [bmi_range |-> label,
          avg_glucose |-> Mean(g, "Glucose"),
          patient_count |-> Len(g),
          avg_age |-> Mean(g, "Age")] :
      label \in {rows[i].bmi_range : i \in 1..Len(rows)} }

\* The Record Cleaner has not been called
CleanerIdle ==
    /\ input = <<>>
    /\ patients = <<>>
    /\ idx = 1
    /\ cleaned_patients = <<>>
    /\ seen = {}
    /\ pc = "idle"
    /\ result = <<>>
    /\ err = "none"

InitCohort ==
    /\ CleanerIdle
    /\ input_file \in SampleInputFiles
    /\ parquet \in {NoFile, [exists |-> TRUE, cols |-> {}, rows |-> <<>>]}
    /\ parquet_before = parquet
    /\ cpc = "start"
    /\ ops = <<>>
    /\ labelled = <<>>
    /\ cohort_results = {}
    /\ cerr = "none"

\* if not os.path.exists(input_file): raise FileNotFoundError
CheckMissing ==
    /\ cpc = "start"
    /\ ~PathExists(input_file)
    /\ cpc' = "raised"
    /\ cerr' = "FileNotFoundError"
    /\ UNCHANGED <<input_file, parquet, parquet_before, ops, labelled, cohort_results>>
    /\ UNCHANGED cleanerVars

CheckFound ==
    /\ cpc = "start"
    /\ PathExists(input_file)
    /\ cpc' = "convert"
    /\ UNCHANGED <<input_file, parquet, parquet_before, ops, labelled,
                   cohort_results, cerr>>
    /\ UNCHANGED cleanerVars

\* pl.read_csv(input_file) raises: nothing is written
ConvertFail ==
    /\ cpc = "convert"
    /\ input_file.kind # "table"
    /\ ops' = Append(ops, "read_csv")
    /\ cpc' = "raised"
    /\ cerr' = IF input_file.kind = "missing" THEN "FileNotFoundError"
               ELSE "ComputeError"
    /\ UNCHANGED <<input_file, parquet, parquet_before, labelled, cohort_results>>
    /\ UNCHANGED cleanerVars

\* pl.read_csv(input_file).write_parquet(parquet_file)
ConvertOk ==
    /\ cpc = "convert"
    /\ input_file.kind = "table"
    /\ ops' = ops \o <<"read_csv", "write_parquet">>
    /\ parquet' = [exists |-> TRUE, cols |-> input_file.cols, rows |-> input_file.rows]
    /\ cpc' = "query"
    /\ UNCHANGED <<input_file, parquet_before, labelled, cohort_results, cerr>>
    /\ UNCHANGED cleanerVars

\* the type read_csv infers for the BMI column: a column in which no cell
\* holds a number (no data row, or empty cells only) is read as String
BmiDtype(rows) ==
    IF \E i \in 1..Len(rows) : ~rows[i].BMI.null THEN "Float64" ELSE "String"

\* the lazy query can be planned: its columns are in the file and BMI can be
\* compared with a number
QueryPlans(table) ==
    /\ RequiredColumns \subseteq table.cols
    /\ BmiDtype(table.rows) = "Float64"

\* .collect() raises because a column of the query is not in the file, or
\* because the String column BMI is compared with a number
QueryFail ==
    /\ cpc = "query"
    /\ ~QueryPlans(parquet)
    /\ ops' = Append(ops, "collect")
    /\ cpc' = "raised"
    /\ cerr' = IF RequiredColumns \subseteq parquet.cols THEN "ComputeError"
               ELSE "ColumnNotFoundError"
    /\ UNCHANGED <<input_file, parquet, parquet_before, labelled, cohort_results>>
    /\ UNCHANGED cleanerVars

\* scan_parquet ... filter, select, with_columns, group_by/agg ... collect()
QueryOk ==
    /\ cpc = "query"
    /\ QueryPlans(parquet)
    /\ ops' = Append(ops, "collect")
    /\ labelled' = WithBmiRange(FilterRows(parquet.rows))
    /\ cohort_results' = GroupAgg(WithBmiRange(FilterRows(parquet.rows)))
    /\ cpc' = "cleanup"
    /\ UNCHANGED <<input_file, parquet, parquet_before, cerr>>
    /\ UNCHANGED cleanerVars

\* if os.path.exists(parquet_file): os.remove(parquet_file); return
CleanupReturn ==
    /\ cpc = "cleanup"
    /\ parquet' = IF parquet.exists THEN NoFile ELSE parquet
    /\ ops' = IF parquet.exists THEN Append(ops, "remove") ELSE ops
    /\ cpc' = "returned"
    /\ UNCHANGED <<input_file, parquet_before, labelled, cohort_results, cerr>>
    /\ UNCHANGED cleanerVars

NextCohort ==
    \/ CheckMissing
    \/ CheckFound
    \/ ConvertFail
    \/ ConvertOk
    \/ QueryFail
    \/ QueryOk
    \/ CleanupReturn

SpecCohort == InitCohort /\ [][NextCohort]_vars


\* ------------------------------------------------------------------------
\* Properties of the Record Cleaner (checked under SpecCleaner)
\* ------------------------------------------------------------------------

\* the raw age of an input record is no integer, finite float, bool or
\* integer literal
RawAgeBad(p) ==
    LET a == Get(p, AgeKey, IntV(0))
    IN \/ a.t \notin {"int", "float", "bool", "str"}
       \/ a.t = "str" /\ ~ParseInt(a.s).ok

\* the integer the raw age of an input record coerces to
RawAge(p) == ToInt(Get(p, AgeKey, IntV(0))).v

\* the records the loop has finished with
Done == 1..(idx - 1)

\* the run was stopped by the age of the record the loop is at
RaisedOnAge ==
    /\ pc = "raised"
    /\ ~NameFails(input[idx])
    /\ RawAgeBad(input[idx])

\* records r and q are field-wise identical: the same keys, and under each
\* key the same JSON value (7 and 7.0, 1 and true are different values)
FieldEq(r, q) ==
    /\ KeysOf(r) = KeysOf(q)
    /\ \A k \in KeysOf(r) : GetItem(r, k) = GetItem(q, k)

\* record r is, field by field, the normalized form of input record i: the
\* title-cased name, the integer age, every other field as it was
IsNormalOf(r, i) ==
    /\ KeysOf(r) = KeysOf(input[i]) \cup {AgeKey}
    /\ GetItem(r, NameKey) = Str(Title(GetItem(input[i], NameKey).s))
    /\ GetItem(r, AgeKey) = IntV(RawAge(input[i]))
    /\ \A k \in KeysOf(input[i]) \ {NameKey, AgeKey} :
          GetItem(r, k) = GetItem(input[i], k)

\* input records i and j are field-wise identical after normalization
SameAfterNormalization(i, j) ==
    /\ KeysOf(input[i]) \cup {AgeKey} = KeysOf(input[j]) \cup {AgeKey}
    /\ Title(GetItem(input[i], NameKey).s) = Title(GetItem(input[j], NameKey).s)
    /\ RawAge(input[i]) = RawAge(input[j])
    /\ \A k \in KeysOf(input[i]) \ {NameKey, AgeKey} :
          HasKey(input[j], k) /\ GetItem(input[j], k) = GetItem(input[i], k)

\* the output records that are the normalized form of input record i
Copies(out, i) == {k \in 1..Len(out) : IsNormalOf(out[k], i)}

\* C5: when the call returns, no two output records are field-wise
\* identical, and every input record of age 18 or more has its normalized
\* form in the output exactly once: identical records (whatever their key
\* order) collapse to one, and records that differ in any field, a
\* passthrough field included, both appear.
C5_NoDuplicates ==
    pc = "returned" =>
        /\ \A k, l \in 1..Len(result) : k # l => ~FieldEq(result[k], result[l])
        /\ \A i \in 1..Len(input) :
              RawAge(input[i]) >= 18 => Cardinality(Copies(result, i)) = 1

\* output record k is finished record i itself or a field-wise identical one
Holds(out, k, i) == FieldEq(out[k], patients[i])

\* C6: every output record has an integer age of at least 18; a finished
\* record whose age coerces to less than 18 (0 when the key is absent) is
\* not in the output; a finished record whose age coerces to 18 or more is
\* in the output, unless an earlier record of the output has its keys, its
\* name and its age (the duplicate test, not the age filter, dropped it).
C6_AgeFilter ==
    /\ \A k \in 1..Len(cleaned_patients) :
          /\ GetItem(cleaned_patients[k], AgeKey).t = "int"
          /\ GetItem(cleaned_patients[k], AgeKey).n >= 18
    /\ \A i \in Done :
          IF RawAge(input[i]) >= 18
          THEN \/ \E k \in 1..Len(cleaned_patients) : Holds(cleaned_patients, k, i)
               \/ \E j \in 1..(i - 1) :
                     /\ \E k \in 1..Len(cleaned_patients) :
                           cleaned_patients[k] = patients[j]
                     /\ KeysOf(patients[j]) = KeysOf(patients[i])
                     /\ GetItem(patients[j], NameKey) = GetItem(patients[i], NameKey)
                     /\ GetItem(patients[j], AgeKey) = GetItem(patients[i], AgeKey)
          ELSE \A k \in 1..Len(cleaned_patients) : ~Holds(cleaned_patients, k, i)
    /\ pc = "returned" =>
          /\ result = cleaned_patients
          /\ Done = 1..Len(input)

C6_Witness ==
    /\ pc = "returned"
    /\ \E i, j, m \in 1..Len(input) :
          /\ RawAge(input[i]) = 18
          /\ \E k \in 1..Len(result) : Holds(result, k, i)
          /\ HasKey(input[j], AgeKey) /\ RawAge(input[j]) = 17
          /\ \A k \in 1..Len(result) : ~Holds(result, k, j)
          /\ ~HasKey(input[m], AgeKey)
          /\ \A k \in 1..Len(result) : ~Holds(result, k, m)

\* the first finished record that is field-wise identical to output record k
FirstOccurrence(k) ==
    CHOOSE i \in Done :
        /\ Holds(cleaned_patients, k, i)
        /\ \A j \in Done : Holds(cleaned_patients, k, j) => i <= j

\* C7: the output is a subsequence of the normalized input: every output
\* record is the record at the position of the first occurrence of its
\* fields (with the key order of that occurrence), it is the normalized
\* form of the input record there, and these positions increase along the
\* output.
C7_FirstOccurrenceOrder ==
    /\ \A k \in 1..Len(cleaned_patients) :
          /\ \E i \in Done : Holds(cleaned_patients, k, i)
          /\ cleaned_patients[k] = patients[FirstOccurrence(k)]
          /\ IsNormalOf(cleaned_patients[k], FirstOccurrence(k))
    /\ \A k, l \in 1..Len(cleaned_patients) :
          k < l => FirstOccurrence(k) < FirstOccurrence(l)
    /\ pc = "returned" => result = cleaned_patients

C7_Witness ==
    /\ pc = "returned"
    /\ Len(result) = 2
    /\ \E i, j, m \in 1..Len(input) :
          /\ i < j /\ j < m
          /\ SameAfterNormalization(i, m)
          /\ [n \in 1..Len(input[i]) |-> input[i][n][1]]
               # [n \in 1..Len(input[m]) |-> input[m][n][1]]
          /\ result[1] = patients[i]
          /\ result[2] = patients[j]

\* C8: a record whose age cannot be coerced stops the run: the loop never
\* gets past it, nothing is returned, and when the run stops on it the
\* record keeps its raw age.
C8_BadAgeAborts ==
    /\ \A i \in 1..Len(input) : RawAgeBad(input[i]) => idx <= i /\ pc # "returned"
    /\ RaisedOnAge =>
          /\ err \in {"ValueError", "TypeError", "OverflowError"}
          /\ Get(patients[idx], AgeKey, IntV(0)) = Get(input[idx], AgeKey, IntV(0))
          /\ KeysOf(patients[idx]) = KeysOf(input[idx])
          /\ result = <<>>

C8_Witness ==
    /\ pc = "raised"
    /\ err = "ValueError"
    /\ idx = 3
    /\ Len(cleaned_patients) = 2
    /\ result = <<>>

\* C9: an invalid age is set to 0 and the run goes on: the run never raises
\* on an age, and a finished record whose raw age was invalid has age 0.
C9_InvalidAgeBecomesZero ==
    /\ ~RaisedOnAge
    /\ \A i \in Done : RawAgeBad(input[i]) => GetItem(patients[i], AgeKey) = IntV(0)

\* the keys of record r, in insertion order, start with those of record q
KeepsKeyOrder(r, q) ==
    /\ Len(r) >= Len(q)
    /\ \A n \in 1..Len(q) : r[n][1] = q[n][1]

\* C10: the call changes nothing of its input but the name and the age of
\* the records it has reached: finished records (kept or dropped) carry the
\* title-cased name and the integer age, all other fields, the key order,
\* the length and the order of the list are as they were, records not yet
\* reached are untouched, and output records are records of the input list.
C10_Frame ==
    /\ Len(patients) = Len(input)
    /\ \A i \in 1..Len(input) :
          /\ KeepsKeyOrder(patients[i], input[i])
          /\ KeysOf(patients[i]) \subseteq KeysOf(input[i]) \cup {AgeKey}
          /\ \A k \in KeysOf(input[i]) \ {NameKey, AgeKey} :
                GetItem(patients[i], k) = GetItem(input[i], k)
          /\ i \in Done => IsNormalOf(patients[i], i)
          /\ (i > idx \/ (i = idx /\ pc = "loop")) => patients[i] = input[i]
          /\ (i = idx /\ pc = "raised") =>
                IF NameFails(input[i]) THEN patients[i] = input[i]
                ELSE /\ GetItem(patients[i], NameKey)
                          = Str(Title(GetItem(input[i], NameKey).s))
                     /\ IF RawAgeBad(input[i])
                        THEN /\ KeysOf(patients[i]) = KeysOf(input[i])
                             /\ Get(patients[i], AgeKey, NullV)
                                  = Get(input[i], AgeKey, NullV)
                        ELSE /\ KeysOf(patients[i]) = KeysOf(input[i]) \cup {AgeKey}
                             /\ GetItem(patients[i], AgeKey) = IntV(RawAge(input[i]))
    /\ \A k \in 1..Len(cleaned_patients) :
          \E i \in Done : cleaned_patients[k] = patients[i]
    /\ pc = "returned" => \A k \in 1..Len(result) :
          \E i \in 1..Len(patients) : result[k] = patients[i]

C10_Witness ==
    /\ pc = "returned"
    /\ Len(result) = 1
    /\ \E i, j, m \in 1..Len(input) :
          /\ i < j
          /\ SameAfterNormalization(i, j)
          /\ \E k \in KeysOf(input[i]) : GetItem(input[i], k) = NanV
          /\ Copies(result, i) = {1}
          /\ patients[j] # input[j]
          /\ RawAge(input[m]) < 18
          /\ patients[m] # input[m]
          /\ GetItem(patients[m], AgeKey).t = "int"


\* ------------------------------------------------------------------------
\* Properties of the Cohort Aggregator (checked under SpecCohort)
\* ------------------------------------------------------------------------

Ended == cpc \in {"returned", "raised"}

\* C1: once a call that got past the input-exists check has ended, with a
\* result or with a failure, the patients_large.parquet it wrote is not on
\* disk.
C1_NoArtifactAfterCall ==
    (Ended /\ input_file.kind # "missing"
       /\ \E n \in 1..Len(ops) : ops[n] = "write_parquet") => ~parquet.exists

\* C2: a missing input makes the call fail with the not-found error at the
\* check itself: no step of the processing runs and the parquet path is as
\* it was; the not-found error is raised for a missing input only.
C2_NotFoundBeforeProcessing ==
    /\ input_file.kind = "missing" =>
          /\ cpc \in {"start", "raised"}
          /\ ops = <<>>
          /\ parquet = parquet_before
          /\ labelled = <<>>
          /\ cohort_results = {}
          /\ cpc = "raised" => cerr = "FileNotFoundError"
    /\ cerr = "FileNotFoundError" => input_file.kind = "missing"

C2_Witness ==
    /\ input_file.kind = "missing"
    /\ cpc = "raised"
    /\ cerr = "FileNotFoundError"
    /\ parquet.exists
    /\ ops = <<>>

Labels == {"Underweight", "Normal", "Overweight", "Obese"}

\* the disjoint ranges of the four labels, in thousandths
InLabelRange(v, label) ==
    CASE label = "Underweight" -> v < 18500
      [] label = "Normal" -> 18500 <= v /\ v < 25000
      [] label = "Overweight" -> 25000 <= v /\ v < 30000
      [] label = "Obese" -> v >= 30000

\* C3: every row that reaches the labelling has a BMI in [10, 60] and gets
\* the one label whose range contains its BMI: 18.5 is Normal, 25 is
\* Overweight, 30 is Obese.
C3_BmiRangePartition ==
    \A i \in 1..Len(labelled) :
        LET r == labelled[i]
        IN /\ ~r.BMI.null
           /\ 10000 <= r.BMI.v /\ r.BMI.v <= 60000
           /\ r.bmi_range \in Labels
           /\ \A label \in Labels :
                 (r.bmi_range = label) <=> InLabelRange(r.BMI.v, label)

C3_Witness ==
    /\ cpc = "returned"
    /\ \E i, j, m \in 1..Len(labelled) :
          /\ labelled[i].BMI.v = 18500 /\ labelled[i].bmi_range = "Normal"
          /\ labelled[j].BMI.v = 25000 /\ labelled[j].bmi_range = "Overweight"
          /\ labelled[m].BMI.v = 30000 /\ labelled[m].bmi_range = "Obese"

RECURSIVE TotalCount(_)
TotalCount(S) ==
    IF S = {} THEN 0
    ELSE LET r == CHOOSE x \in S : TRUE
         IN r.patient_count + TotalCount(S \ {r})

\* the input rows whose BMI is a number of the closed range [10, 60]
RowsInRange ==
    {i \in 1..Len(input_file.rows) :
        /\ ~input_file.rows[i].BMI.null
        /\ input_file.rows[i].BMI.v >= 10000
        /\ input_file.rows[i].BMI.v <= 60000}

\* C4: the patient counts of the result add up to the number of input rows
\* with BMI in [10, 60]; there is one result row per label, and its count is
\* the number of in-range input rows of that label's range.
C4_CountsAddUp ==
    cpc \in {"cleanup", "returned"} =>
        /\ TotalCount(cohort_results) = Cardinality(RowsInRange)
        /\ \A r, q \in cohort_results : r.bmi_range = q.bmi_range => r = q
        /\ \A r \in cohort_results :
              /\ r.bmi_range \in Labels
              /\ r.patient_count =
                    Cardinality({i \in RowsInRange :
                        InLabelRange(input_file.rows[i].BMI.v, r.bmi_range)})
        /\ \A i \in RowsInRange : \E r \in cohort_results :
              InLabelRange(input_file.rows[i].BMI.v, r.bmi_range)

C4_Witness ==
    /\ cpc = "returned"
    /\ TotalCount(cohort_results) = 2
    /\ \E i, j, m \in 1..Len(input_file.rows) :
          /\ input_file.rows[i].BMI.v = 10000 /\ ~input_file.rows[i].BMI.null
          /\ input_file.rows[j].BMI.v = 60000
          /\ input_file.rows[m].BMI.v \in {9999, 60001}

====
